---- MODULE Spec2Model ----
(***************************************************************************)
(* convert.py: read the first sheet of data/dataset.xlsx with              *)
(* pandas.read_excel, write it with DataFrame.to_csv(index=False) to       *)
(* data/dataset.csv, print a one-line summary.                             *)
(*                                                                         *)
(* A text is a sequence of one-character strings.  A workbook cell is a    *)
(* text, the empty text being an empty cell.  Only text and empty cells    *)
(* are modelled (no numeric, date or boolean cells).                       *)
(***************************************************************************)
EXTENDS Integers, Sequences, FiniteSets

VARIABLES
    pc,             \* position of the script
    xlsx,           \* the file at InPath
    fs,             \* the files at the two .csv paths
    fs0,            \* fs as it was before the run (history)
    writable,       \* whether OutPath can be opened for writing
    df,             \* the module-level name df
    inOpen,         \* the handle read_excel holds on InPath
    outOpen,        \* the handle to_csv holds on OutPath
    stdout,         \* lines printed
    errKind,        \* "none", "input" (raised by line 4), "output" (by line 7)
    exitCode,       \* -1 while running, then the interpreter's exit status
    readAttempts,   \* calls of read_excel begun (history)
    writeAttempts   \* calls of to_csv begun (history)

vars ==
    <<pc, xlsx, fs, fs0, writable, df, inOpen, outOpen, stdout, errKind,
      exitCode, readAttempts, writeAttempts>>

-----------------------------------------------------------------------------
(* Bounds and input samples *)

MaxRows == 2

MaxLen == 3

Chars == {"a", ",", "\"", "\n"}

InPath == "data/dataset.xlsx"

OutPath == "data/dataset.csv"

\* a slip: the summary names the path written
SummaryPathMutant == OutPath

SummaryPath == "data/gtd_sample.csv"

CsvPaths == {"data/dataset.csv", "data/gtd_sample.csv"}

\* a slip: index left at its default
indexMutant == TRUE

index == FALSE

-----------------------------------------------------------------------------
(* Texts *)

Digits == <<"0", "1", "2", "3", "4", "5", "6", "7", "8", "9">>

RECURSIVE Str(_)
Str(n) ==
    IF n < 10 THEN <<Digits[n + 1]>>
    ELSE Str(n \div 10) \o <<Digits[(n % 10) + 1]>>

RECURSIVE Flatten(_)
Flatten(ss) ==
    IF ss = <<>> THEN <<>> ELSE Head(ss) \o Flatten(Tail(ss))

Count(c, s) == Cardinality({i \in 1..Len(s) : s[i] = c})

Has(c, s) == \E i \in 1..Len(s) : s[i] = c

TextsUpTo(n) == UNION {[1..k -> Chars] : k \in 1..n}

-----------------------------------------------------------------------------
(* pandas.read_excel *)

NaN == [isna |-> TRUE, s |-> <<>>]

Unbound == [bound |-> FALSE, columns |-> <<>>, rows |-> <<>>]

Earlier(names, i) == Cardinality({k \in 1..(i - 1) : names[k] = names[i]})

\* a slip: the count of earlier occurrences is appended even when it is 0
MangleDupesMutant(names) ==
    [i \in 1..Len(names) |-> names[i] \o <<".">> \o Str(Earlier(names, i))]

\* read_excel labels the k-th repeat (k >= 1) of a header cell name.k; the
\* header samples hold no cell that already ends in such a suffix.
MangleDupes(names) ==
    [i \in 1..Len(names) |->
        IF Earlier(names, i) = 0 THEN names[i]
        ELSE names[i] \o <<".">> \o Str(Earlier(names, i))]

ReadCell(c) == IF c = <<>> THEN NaN ELSE [isna |-> FALSE, s |-> c]

ReadExcel(book) ==
    [bound |-> TRUE,
     columns |-> MangleDupes(book.header),
     rows |-> [i \in 1..Len(book.rows) |->
                 [j \in 1..Len(book.rows[i]) |-> ReadCell(book.rows[i][j])]]]

-----------------------------------------------------------------------------
(* DataFrame.to_csv: csv.writer, QUOTE_MINIMAL, doublequote, ',' '"' '\n' *)

NeedsQuote(s) == Has(",", s) \/ Has("\"", s) \/ Has("\n", s)

\* a slip: a quote inside a quoted field is not doubled
DoubleQuotesMutant(s) == s

DoubleQuotes(s) ==
    Flatten([i \in 1..Len(s) |->
                IF s[i] = "\"" THEN <<"\"", "\"">> ELSE <<s[i]>>])

QuoteField(s) ==
    IF NeedsQuote(s) THEN <<"\"">> \o DoubleQuotes(s) \o <<"\"">> ELSE s

RECURSIVE Join(_)
Join(fields) ==
    IF Len(fields) = 1 THEN QuoteField(fields[1])
    ELSE QuoteField(fields[1]) \o <<",">> \o Join(Tail(fields))

WriteRow(fields) ==
    IF fields = <<>> THEN <<"\n">>
    ELSE IF fields = << <<>> >> THEN <<"\"", "\"", "\n">>
    ELSE Join(fields) \o <<"\n">>

CellText(c) == IF c.isna THEN <<>> ELSE c.s

HeaderFields(frame, idx) ==
    IF idx THEN << <<>> >> \o frame.columns ELSE frame.columns

RowFields(frame, i, idx) ==
    LET cells == [j \in 1..Len(frame.rows[i]) |-> CellText(frame.rows[i][j])]
    IN  IF idx THEN <<Str(i - 1)>> \o cells ELSE cells

Records(frame, idx) ==
    <<HeaderFields(frame, idx)>>
        \o [i \in 1..Len(frame.rows) |-> RowFields(frame, i, idx)]

ToCsvPrefix(frame, idx, k) ==
    Flatten([r \in 1..k |-> WriteRow(Records(frame, idx)[r])])

\* a slip: the header record is not written
ToCsvMutant(frame, idx) ==
    Flatten([i \in 1..Len(frame.rows) |-> WriteRow(RowFields(frame, i, idx))])

ToCsv(frame, idx) == ToCsvPrefix(frame, idx, Len(frame.rows) + 1)

-----------------------------------------------------------------------------
(* A CSV reader (csv.reader with the same dialect), used to state what the   *)
(* output file holds.  st: "start" of a field, "plain" inside an unquoted    *)
(* field, "quoted" inside a quoted field, "quote" after a quote seen inside  *)
(* a quoted field.                                                           *)

RECURSIVE Parse(_, _, _, _, _, _)
Parse(t, i, st, field, rec, recs) ==
    IF i > Len(t) THEN
        IF st = "start" /\ rec = <<>> THEN recs
        ELSE Append(recs, Append(rec, field))
    ELSE LET c == t[i] IN
        IF st = "quoted" THEN
            IF c = "\"" THEN Parse(t, i + 1, "quote", field, rec, recs)
            ELSE Parse(t, i + 1, "quoted", Append(field, c), rec, recs)
        ELSE IF c = "\"" /\ st = "start" THEN
            Parse(t, i + 1, "quoted", field, rec, recs)
        ELSE IF c = "\"" /\ st = "quote" THEN
            Parse(t, i + 1, "quoted", Append(field, c), rec, recs)
        ELSE IF c = "," THEN
            Parse(t, i + 1, "start", <<>>, Append(rec, field), recs)
        ELSE IF c = "\n" THEN
            Parse(t, i + 1, "start", <<>>, <<>>, Append(recs, Append(rec, field)))
        ELSE Parse(t, i + 1, "plain", Append(field, c), rec, recs)

ParseCsv(t) == Parse(t, 1, "start", <<>>, <<>>, <<>>)

LineCount(t) == Count("\n", t)

-----------------------------------------------------------------------------
(* Input files *)

A == <<"a">>

B == <<"b">>

HeaderSamples ==
    { <<A>>, << <<"a", "\n", "b">> >>, <<A, B>>, <<A, A>>,
      << <<"a", ",", "b">>, B >> }

CellSamples == { <<>>, A, <<",", "\"", "\n">> }

RowsOf(ncols) == UNION {[1..n -> [1..ncols -> CellSamples]] : n \in 0..MaxRows}

TableBooks ==
    UNION {{[kind |-> "xlsx", header |-> h, rows |-> r] : r \in RowsOf(Len(h))}
            : h \in HeaderSamples}

WideBooks ==
    {[kind |-> "xlsx", header |-> <<A>>, rows |-> << <<s>> >>]
        : s \in TextsUpTo(MaxLen)}

Missing == [kind |-> "absent", header |-> <<>>, rows |-> <<>>]

Garbage == [kind |-> "garbage", header |-> <<>>, rows |-> <<>>]

NoFile == [exists |-> FALSE, text |-> <<>>]

OldFile == [exists |-> TRUE, text |-> <<"o", "l", "d", "\n">>]

\* a slip: the number of columns is reported
SummaryCountMutant(frame) == Len(frame.columns)

SummaryCount(frame) == Len(frame.rows)

Summary(frame) == [n |-> SummaryCount(frame), path |-> SummaryPath]

-----------------------------------------------------------------------------
(* The script *)

Init ==
    /\ pc = "read_open"
    /\ xlsx \in {Missing, Garbage} \cup TableBooks \cup WideBooks
    /\ fs \in [CsvPaths -> {NoFile, OldFile}]
    /\ fs0 = fs
    /\ writable \in BOOLEAN
    /\ df = Unbound
    /\ inOpen = FALSE
    /\ outOpen = FALSE
    /\ stdout = <<>>
    /\ errKind = "none"
    /\ exitCode = -1
    /\ readAttempts = 0
    /\ writeAttempts = 0

\* a slip: the missing file is taken for an empty sheet and the run goes on
ReadMissingMutant ==
    /\ pc = "read_open"
    /\ xlsx.kind = "absent"
    /\ readAttempts' = readAttempts + 1
    /\ df' = ReadExcel(xlsx)
    /\ pc' = "write_open"
    /\ UNCHANGED <<xlsx, fs, fs0, writable, inOpen, outOpen, stdout, errKind,
                   exitCode, writeAttempts>>

\* line 4, the path does not exist: FileNotFoundError, uncaught
ReadMissing ==
    /\ pc = "read_open"
    /\ xlsx.kind = "absent"
    /\ readAttempts' = readAttempts + 1
    /\ pc' = "error"
    /\ errKind' = "input"
    /\ exitCode' = 1
    /\ UNCHANGED <<xlsx, fs, fs0, writable, df, inOpen, outOpen, stdout,
                   writeAttempts>>

\* line 4, the file is opened
ReadOpen ==
    /\ pc = "read_open"
    /\ xlsx.kind # "absent"
    /\ readAttempts' = readAttempts + 1
    /\ inOpen' = TRUE
    /\ pc' = "read_parse"
    /\ UNCHANGED <<xlsx, fs, fs0, writable, df, outOpen, stdout, errKind,
                   exitCode, writeAttempts>>

\* a slip: the handle is left open when parsing fails
ReadInvalidMutant ==
    /\ pc = "read_parse"
    /\ xlsx.kind = "garbage"
    /\ pc' = "error"
    /\ errKind' = "input"
    /\ exitCode' = 1
    /\ UNCHANGED <<xlsx, fs, fs0, writable, df, inOpen, outOpen, stdout,
                   readAttempts, writeAttempts>>

\* line 4, the content is no spreadsheet: the handle is closed, ValueError
ReadInvalid ==
    /\ pc = "read_parse"
    /\ xlsx.kind = "garbage"
    /\ inOpen' = FALSE
    /\ pc' = "error"
    /\ errKind' = "input"
    /\ exitCode' = 1
    /\ UNCHANGED <<xlsx, fs, fs0, writable, df, outOpen, stdout,
                   readAttempts, writeAttempts>>

\* line 4, the first sheet is parsed, the handle closed, df bound
ReadParse ==
    /\ pc = "read_parse"
    /\ xlsx.kind = "xlsx"
    /\ df' = ReadExcel(xlsx)
    /\ inOpen' = FALSE
    /\ pc' = "write_open"
    /\ UNCHANGED <<xlsx, fs, fs0, writable, outOpen, stdout, errKind,
                   exitCode, readAttempts, writeAttempts>>

\* a slip: the open is tried again
WriteDeniedMutant ==
    /\ pc = "write_open"
    /\ ~writable
    /\ writeAttempts' = writeAttempts + 1
    /\ UNCHANGED <<pc, xlsx, fs, fs0, writable, df, inOpen, outOpen, stdout,
                   errKind, exitCode, readAttempts>>

\* line 7, the path cannot be opened for writing: OSError, uncaught
WriteDenied ==
    /\ pc = "write_open"
    /\ ~writable
    /\ writeAttempts' = writeAttempts + 1
    /\ pc' = "error"
    /\ errKind' = "output"
    /\ exitCode' = 1
    /\ UNCHANGED <<xlsx, fs, fs0, writable, df, inOpen, outOpen, stdout,
                   readAttempts>>

\* line 7, open(path, "w"): the file is created or truncated
WriteOpen ==
    /\ pc = "write_open"
    /\ writable
    /\ writeAttempts' = writeAttempts + 1
    /\ fs' = [fs EXCEPT ![OutPath] = [exists |-> TRUE, text |-> <<>>]]
    /\ outOpen' = TRUE
    /\ pc' = "write_body"
    /\ UNCHANGED <<xlsx, fs0, writable, df, inOpen, stdout, errKind,
                   exitCode, readAttempts>>

\* a slip: the I/O error is swallowed and the run goes on
WriteFaultMutant ==
    /\ pc = "write_body"
    /\ \E k \in 0..Len(df.rows) :
          fs' = [fs EXCEPT ![OutPath] =
                    [exists |-> TRUE, text |-> ToCsvPrefix(df, index, k)]]
    /\ outOpen' = FALSE
    /\ pc' = "print"
    /\ UNCHANGED <<xlsx, fs0, writable, df, inOpen, stdout, errKind,
                   exitCode, readAttempts, writeAttempts>>

\* line 7, an I/O error after k records: the handle is closed, OSError
WriteFault ==
    /\ pc = "write_body"
    /\ \E k \in 0..Len(df.rows) :
          fs' = [fs EXCEPT ![OutPath] =
                    [exists |-> TRUE, text |-> ToCsvPrefix(df, index, k)]]
    /\ outOpen' = FALSE
    /\ pc' = "error"
    /\ errKind' = "output"
    /\ exitCode' = 1
    /\ UNCHANGED <<xlsx, fs0, writable, df, inOpen, stdout, readAttempts,
                   writeAttempts>>

\* line 7, header and rows are written, the handle closed
WriteBody ==
    /\ pc = "write_body"
    /\ fs' = [fs EXCEPT ![OutPath] =
                 [exists |-> TRUE, text |-> ToCsv(df, index)]]
    /\ outOpen' = FALSE
    /\ pc' = "print"
    /\ UNCHANGED <<xlsx, fs0, writable, df, inOpen, stdout, errKind,
                   exitCode, readAttempts, writeAttempts>>

\* line 9, then the interpreter exits
PrintSummary ==
    /\ pc = "print"
    /\ stdout' = Append(stdout, Summary(df))
    /\ pc' = "done"
    /\ exitCode' = 0
    /\ UNCHANGED <<xlsx, fs, fs0, writable, df, inOpen, outOpen, errKind,
                   readAttempts, writeAttempts>>

Next ==
    \/ ReadMissing
    \/ ReadOpen
    \/ ReadInvalid
    \/ ReadParse
    \/ WriteDenied
    \/ WriteOpen
    \/ WriteFault
    \/ WriteBody
    \/ PrintSummary

Spec == Init /\ [][Next]_vars

-----------------------------------------------------------------------------
(* What the claims speak of *)

Out == fs[OutPath].text

OutRecords == ParseCsv(Out)

N == Len(xlsx.rows)

NCols == Len(xlsx.header)

Special(s) == \E i \in 1..Len(s) : s[i] \in {",", "\"", "\n"}

BreakInHeader == \E j \in 1..NCols : Has("\n", xlsx.header[j])

BreakInCells ==
    \E i \in 1..N : \E j \in 1..Len(xlsx.rows[i]) : Has("\n", xlsx.rows[i][j])

DistinctNames ==
    \A j, k \in 1..NCols : j # k => xlsx.header[j] # xlsx.header[k]

\* C1, as stated: after a completed run the output file has exactly N+1
\* lines, N the number of data rows of the sheet.
C1_LinesAreRowsPlusOne ==
    pc = "done" => LineCount(Out) = N + 1

\* C1, amended: the frame holds N rows from read to write; after a completed
\* run the output file holds exactly N+1 CSV records, the header then one
\* record per data row in the sheet's order, and exactly N+1 lines when no
\* header cell and no cell contains a line break.
C1_RecordsAreRowsPlusOne ==
    /\ df.bound => Len(df.rows) = N
    /\ pc = "done" =>
        /\ Len(OutRecords) = N + 1
        /\ \A i \in 1..N : OutRecords[i + 1] = xlsx.rows[i]
        /\ (~BreakInHeader /\ ~BreakInCells) => LineCount(Out) = N + 1

C1_Witness ==
    pc = "done" /\ N = MaxRows /\ BreakInCells /\ LineCount(Out) > N + 1

C3_NoIndexField ==
    (writeAttempts = 1 /\ writable /\ pc \in {"print", "done", "error"}) =>
        \A r \in 1..Len(OutRecords) :
            /\ Len(OutRecords[r]) = NCols
            /\ r > 1 => OutRecords[r][1] = xlsx.rows[r - 1][1]

C3_Witness ==
    pc = "done" /\ N = MaxRows /\ NCols = 2

\* C4: every text cell holding a comma, a double quote or a line break is
\* written enclosed in double quotes, and reading the output file back as
\* CSV gives the cell's text exactly.
C4_QuotedTextRoundTrips ==
    pc = "done" =>
        \A i \in 1..N : \A j \in 1..NCols :
            Special(xlsx.rows[i][j]) =>
                /\ OutRecords[i + 1][j] = xlsx.rows[i][j]
                /\ Head(QuoteField(xlsx.rows[i][j])) = "\""
                /\ ParseCsv(WriteRow(<<xlsx.rows[i][j]>>))
                      = << <<xlsx.rows[i][j]>> >>

C4_Witness ==
    /\ pc = "done"
    /\ N = 1
    /\ NCols = 1
    /\ Len(xlsx.rows[1][1]) = MaxLen
    /\ \A c \in {",", "\"", "\n"} : Has(c, xlsx.rows[1][1])

\* C5: when the input is missing or no spreadsheet, the run ends in an input
\* error raised by the read step; the write step and the print are never
\* reached and the files at the output paths stay as they were.
C5_InputErrorLeavesOutput ==
    xlsx.kind # "xlsx" =>
        /\ pc \in {"read_open", "read_parse", "error"}
        /\ fs = fs0
        /\ stdout = <<>>
        /\ writeAttempts = 0
        /\ ~outOpen
        /\ ~df.bound
        /\ pc = "error" => errKind = "input" /\ exitCode = 1

C5_Witness ==
    pc = "error" /\ xlsx.kind = "absent" /\ fs[OutPath] = OldFile

\* C6, as stated: for a sheet with a header row and no data rows, a completed
\* run leaves exactly one line in the output file and reports 0 rows.
C6_EmptySheetOneLine ==
    (pc = "done" /\ N = 0) =>
        /\ LineCount(Out) = 1
        /\ stdout[1].n = 0

\* C6, amended: for a sheet with a header row and no data rows the read step
\* succeeds, and a completed run leaves exactly one CSV record, the frame's
\* column labels, in the output file (one line when no header cell contains
\* a line break), reports 0 rows and exits with status 0.
C6_EmptySheetOneRecord ==
    (xlsx.kind = "xlsx" /\ N = 0) =>
        /\ errKind # "input"
        /\ pc = "done" =>
            /\ OutRecords = <<df.columns>>
            /\ Len(OutRecords[1]) = NCols
            /\ ~BreakInHeader => LineCount(Out) = 1
            /\ Len(stdout) = 1
            /\ stdout[1].n = 0
            /\ exitCode = 0

C6_Witness ==
    pc = "done" /\ xlsx.kind = "xlsx" /\ N = 0 /\ NCols = 2

\* C7: at most one summary is printed, only after the write has completed
\* without error, and its number is the row count of the frame read and of
\* the records written; a failed run prints nothing.
C7_SummaryOnlyAfterWrite ==
    /\ Len(stdout) <= 1
    /\ stdout # <<>> =>
        /\ pc = "done"
        /\ errKind = "none"
        /\ writeAttempts = 1
        /\ stdout[1].n = N
        /\ stdout[1].n = Len(df.rows)
        /\ Len(OutRecords) = stdout[1].n + 1
    /\ (errKind # "none" \/ pc = "error") => stdout = <<>>

C7_Witness ==
    pc = "done" /\ Len(stdout) = 1 /\ stdout[1].n = MaxRows

\* C8: the read and the write are each begun at most once; a failure of
\* either ends the run at once with exit status 1, no later step being
\* enabled, and a read failure means the write was never begun.
C8_ErrorsAreFatal ==
    /\ readAttempts <= 1
    /\ writeAttempts <= 1
    /\ errKind # "none" <=> pc = "error"
    /\ errKind = "input" => writeAttempts = 0
    /\ pc = "error" => exitCode = 1 /\ ~ENABLED Next
    /\ exitCode = 0 <=> pc = "done"

C8_Witness ==
    pc = "error" /\ errKind = "output" /\ ~writable /\ writeAttempts = 1

\* C9: the input handle is open only inside the read step and the output
\* handle only inside the write step, never both at once, and neither is
\* open at the print, at the end of the run or after an error.
C9_HandlesInSequence ==
    /\ ~(inOpen /\ outOpen)
    /\ inOpen <=> pc = "read_parse"
    /\ outOpen <=> pc = "write_body"
    /\ pc \in {"print", "done", "error"} => ~inOpen /\ ~outOpen

C9_Witness ==
    pc = "error" /\ xlsx.kind = "garbage" /\ readAttempts = 1 /\ ~inOpen

\* C10: after a completed run the path named in the summary is
\* data/gtd_sample.csv, not the path written; the file written is
\* data/dataset.csv, and the file at the named path is as it was.
C10_SummaryNamesOtherPath ==
    /\ fs["data/gtd_sample.csv"] = fs0["data/gtd_sample.csv"]
    /\ pc = "done" =>
        /\ stdout[1].path = "data/gtd_sample.csv"
        /\ stdout[1].path # OutPath
        /\ fs[stdout[1].path] = fs0[stdout[1].path]
        /\ OutPath = "data/dataset.csv"
        /\ fs[OutPath].exists
        /\ Len(OutRecords) = N + 1

C10_Witness ==
    /\ pc = "done"
    /\ ~fs["data/gtd_sample.csv"].exists
    /\ ~fs0[OutPath].exists
    /\ fs[OutPath].exists

====
